---------------------------- MODULE Spec2Model ----------------------------
(***************************************************************************)
(* imap-checker: one coordinating thread drives a single IMAP session      *)
(* (imaplib.IMAP4) and a concurrent.futures.ThreadPoolExecutor whose tasks *)
(* pipe every fetched message through the spamc client.                    *)
(*                                                                         *)
(* The model follows src/imap-checker.py: main (425-436), spam_check       *)
(* (93-135), get_mailbox_uids (137-157), check_mailbox (159-168),          *)
(* do_spamcheck (170-185), spam_learn (191-217), do_spamlearn (219-236)    *)
(* and imap_logout (85-87).  Every IMAP command is two steps of the        *)
(* coordinating thread (the command is sent, the tagged response is        *)
(* handled); every pool task is two steps of a worker (the task is taken   *)
(* from the queue, the task returns or raises).                            *)
(*                                                                         *)
(* Three specifications share the actions.  Spec: a scan or a learn run    *)
(* on mailboxes without \Deleted messages, the server answering a fetch    *)
(* with every message asked for, in order.  SpecFlagged: the same runs on  *)
(* mailboxes in which a message may carry \Deleted beforehand.             *)
(* SpecAnyOrder: a scan against a server that answers a fetch with the     *)
(* messages it still has, in any order.                                    *)
(***************************************************************************)
EXTENDS Integers, Sequences, FiniteSets, TLC

(***************************************************************************)
(* Bounds of the model.                                                    *)
(***************************************************************************)
\* UIDs a search response is drawn from: 1..MaxUid
MaxUid == 2
\* length of the configured mailbox list
MaxBoxes == 2
\* messages returned by all the searches of one run, in total
MaxMsgs == 3
\* the configured worker count (--workers)
Workers == 2
\* messages that carry \Deleted before the run, over all the mailboxes
MaxFlagged == 1

(***************************************************************************)
(* Configuration values and the environment's alphabets.                   *)
(***************************************************************************)
UIDs == 1..MaxUid

BoxNames == {"INBOX", "Work"}

\* conf['spam-dir'], argparse default of --spam-dir
spam_dir == "Spam"

\* no mailbox selected on the server
NoBox == "-"

\* args.mailboxes: argparse appends to the default ['INBOX'], the config
\* file prepends 'INBOX': the list starts with INBOX, duplicates allowed.
BoxLists ==
    { b \in UNION { [1..n -> BoxNames] : n \in 1..MaxBoxes } : b[1] = "INBOX" }

\* data[0].split() of a UID SEARCH response: ascending UIDs
UidLists ==
    { s \in UNION { [1..n -> UIDs] : n \in 0..MaxUid } :
        \A i \in 1..Len(s) : \A j \in 1..Len(s) : i < j => s[i] < s[j] }

\* what spamc -c writes on its standard output
Outputs == {"0/0\n", "7.5/5.0\n"}

\* exit statuses of spamc -c
CheckCodes == {0, 1}

\* exit statuses of spamc -L spam
LearnCodes == {5, 6, 69, 74, 0}

\* One run of the spamc child as the task sees it: whether Popen could
\* launch it, whether communicate() returned, what it wrote, how it exited.
ClassifierRuns ==
    [launch : {FALSE}, comm : {FALSE}, out : {""}, returncode : {0}]
      \cup [launch : {TRUE}, comm : {FALSE}, out : {""}, returncode : {0}]
      \cup [launch : {TRUE}, comm : {TRUE}, out : Outputs, returncode : CheckCodes]

LearnRuns ==
    [launch : {FALSE}, comm : {FALSE}, out : {""}, returncode : {0}]
      \cup [launch : {TRUE}, comm : {FALSE}, out : {""}, returncode : {0}]
      \cup [launch : {TRUE}, comm : {TRUE}, out : {""}, returncode : LearnCodes]

NoRun == [launch |-> FALSE, comm |-> FALSE, out |-> "-", returncode |-> 0]

(***************************************************************************)
(* Python values.                                                          *)
(***************************************************************************)
\* the elements of a sequence
Range(seq) == { seq[k] : k \in 1..Len(seq) }

\* a bytes object and a str object: never equal to each other in Python 3
Bytes(s) == [type |-> "bytes", val |-> s]
Str(s) == [type |-> "str", val |-> s]

\* the outcome of a call: a returned value or a raised exception
Ret(v) == [kind |-> "ret", val |-> v]
Raise(e) == [kind |-> "raise", val |-> e]
Pending == [kind |-> "pending", val |-> "-"]

(***************************************************************************)
(* do_spamcheck (170-185).  Popen is outside the try block, so a launch    *)
(* failure propagates; the handler of a failed communicate() reads the     *)
(* local `score`, which that failure left unbound, so it raises too.       *)
(* communicate() returns bytes (the pipes are binary) and line 179         *)
(* compares them with a str literal.                                       *)
(***************************************************************************)
do_spamcheck(uid, mail_raw, run) ==
    IF ~run.launch THEN Raise("OSError")
    ELSE IF ~run.comm THEN Raise("UnboundLocalError")
    ELSE LET score == Bytes(run.out) IN
         IF score = Str("0/0\n") THEN Ret(<<uid, FALSE, score>>)
         ELSE IF run.returncode = 0 THEN Ret(<<uid, FALSE, score>>)
         ELSE Ret(<<uid, TRUE, score>>)

(***************************************************************************)
(* do_spamlearn (219-236).                                                 *)
(***************************************************************************)
do_spamlearn(uid, mail_raw, run) ==
    IF ~run.launch THEN Raise("OSError")
    ELSE IF ~run.comm THEN Ret(FALSE)
    ELSE LET code == run.returncode IN
         IF code = 69 \/ code = 74 THEN Ret(FALSE)
         ELSE IF code = 5 THEN Ret(TRUE)
         ELSE IF code = 6 THEN Ret(FALSE)
         ELSE Ret(FALSE)


(***************************************************************************)
(* State.                                                                  *)
(***************************************************************************)
VARIABLES
    mode,        \* "scan" or "learn": args.learn (428)
    action,      \* conf['method']: "move" or "delete"
    boxes,       \* conf['boxes']
    verbose,     \* args.verbose
    only_unread, \* not conf['all-mail'] (430)
    pc,          \* the statement the coordinating thread is at
    bi,          \* index into boxes of the running for loop (104, 112)
    imapState,   \* imaplib's IMAP4.state
    selected,    \* the mailbox selected on the server, or NoBox
    inflight,    \* commands sent on the session and not yet answered
    log,         \* every command sent so far, with its response type
    uid_lists,   \* per mailbox entry, the UID list its search produced
    results,     \* the list `results` of spam_check (103)
    tasks,       \* the futures of the pool, in submission order
    spam_uids,   \* the local spam_uids of the mutation loop (124)
    reports,     \* the "spam messages found" lines printed (114, 125)
    learned,     \* the count printed at 216-217, -1 when none was
    exitCode,    \* the exit status of the process, -1 while it runs
    server       \* the flags and the removals of the server's mailboxes

vars == <<mode, action, boxes, verbose, pc, bi, imapState, selected, inflight,
          log, uid_lists, results, tasks, spam_uids, reports, learned,
          exitCode, only_unread, server>>

conf == <<mode, action, boxes, verbose, only_unread>>

\* `results` holds the literal [] (108) or the generator tpe.map returned
\* (110), kept here as the indices of its futures in `tasks`.
EmptyList == [isgen |-> FALSE, ids |-> <<>>]
Generator(ids) == [isgen |-> TRUE, ids |-> ids]

\* Python truth value of an element of `results`: a generator object is
\* always true, a list is true when it is not empty.
Truthy(res) == res.isgen \/ Len(res.ids) > 0

\* A command on the session: who sent it, in which part of the run (ph:
\* "scan" the first loop of spam_check, "mutate" its second loop, "learn",
\* "logout"), for which entry of boxes, and its mailbox and UID arguments.
Cmd(op, ph, i, box, uids) ==
    [op |-> op, by |-> "main", ph |-> ph, bi |-> i, box |-> box, uids |-> uids]

\* imaplib.Commands: the states of IMAP4.state in which a command may be
\* sent; in any other state the call raises IMAP4.error and sends nothing.
\* search, fetch, copy and store go out as UID commands.
Commands(op) ==
    CASE op = "select" -> {"AUTH", "SELECTED"}
      [] op \in {"search", "fetch", "copy", "store"} -> {"SELECTED"}
      [] op \in {"expunge", "close"} -> {"SELECTED"}
      [] op = "logout" -> {"NONAUTH", "AUTH", "SELECTED", "LOGOUT"}

\* the coordinating thread has no command outstanding
Idle == \A c \in inflight : c.by # "main"

Awaiting(op) == \E c \in inflight : c.by = "main" /\ c.op = op

\* Faulty variant of Send: the command is sent without waiting for the
\* response of the previous one.
SendPipelined(c) ==
    /\ imapState \in Commands(c.op)
    /\ inflight' = inflight \cup {c}
    /\ log' = Append(log, [op |-> c.op, ph |-> c.ph, bi |-> c.bi,
                           box |-> c.box, uids |-> c.uids, typ |-> "-"])

\* the coordinating thread sends command c and blocks on its response
Send(c) ==
    /\ Idle
    /\ imapState \in Commands(c.op)
    /\ inflight' = inflight \cup {c}
    /\ log' = Append(log, [op |-> c.op, ph |-> c.ph, bi |-> c.bi,
                           box |-> c.box, uids |-> c.uids, typ |-> "-"])

\* the tagged response of type typ arrives
Answer(typ) ==
    /\ inflight' = { c \in inflight : c.by # "main" }
    /\ log' = [log EXCEPT ![Len(log)].typ = typ]

(***************************************************************************)
(* The server side of the session, as far as the run can change it: for    *)
(* every mailbox the UIDs that carry \Deleted, the UIDs removed during the *)
(* run, the UIDs whose \Seen flag the run set, and the messages appended   *)
(* to the spam folder.  What else a mailbox holds is known only through    *)
(* the answers to search and fetch.                                        *)
(***************************************************************************)
AllBoxes == BoxNames \cup {spam_dir}

\* no message carries \Deleted, nothing was removed, marked or appended
Clean ==
    [deleted |-> [b \in AllBoxes |-> {}], expunged |-> [b \in AllBoxes |-> {}],
     seen |-> [b \in AllBoxes |-> {}], copied |-> {}]

RECURSIVE Flagged(_, _)
Flagged(d, bs) ==
    IF bs = {} THEN 0
    ELSE LET b == CHOOSE b \in bs : TRUE
         IN Cardinality(d[b]) + Flagged(d, bs \ {b})

\* the servers on which at most MaxFlagged messages carry \Deleted
FlaggedServers ==
    { [Clean EXCEPT !.deleted = d] :
        d \in { d \in [AllBoxes -> SUBSET UIDs] : Flagged(d, AllBoxes) <= MaxFlagged } }

\* 161 and 205: the scan fetches with RFC822.PEEK, which leaves \Seen
\* alone; learning fetches with RFC822, which sets it
FetchItem(ph) == IF ph = "scan" THEN "RFC822.PEEK" ELSE "RFC822"

\* 146 and 199: the search criterion
Criterion(ph) == IF ph = "scan" /\ only_unread THEN "UNSEEN" ELSE "ALL"

\* the answers of UID SEARCH: ascending UIDs of messages still in the
\* mailbox; ALL lists every message, those that carry \Deleted included
SearchResults(box, criterion) ==
    { data \in UidLists :
        /\ Range(data) \cap server.expunged[box] = {}
        /\ criterion = "ALL" => server.deleted[box] \subseteq Range(data) }

\* UID COPY uids spam_dir answered OK: the messages are appended there
Copy(srv, box, uids) ==
    [srv EXCEPT !.copied = @ \cup { <<box, uids[k]>> : k \in 1..Len(uids) }]

\* UID STORE uids +FLAGS (\Deleted) answered OK
Store(srv, box, uids) ==
    [srv EXCEPT !.deleted[box] = @ \cup Range(uids)]

\* EXPUNGE answered OK, and CLOSE: every message of the selected mailbox
\* that carries \Deleted is removed for good
Expunge(srv, box) ==
    [srv EXCEPT !.expunged[box] = @ \cup srv.deleted[box],
                !.deleted[box] = {}]

\* UID FETCH uids (RFC822) answered OK: the messages are marked \Seen
Fetch(srv, box, uids, item) ==
    IF item = "RFC822.PEEK" THEN srv
    ELSE [srv EXCEPT !.seen[box] = @ \cup Range(uids)]

\* the state after construction but for the server's: main has parsed the
\* configuration and imap_login has returned (425-427)
Start ==
    /\ mode \in {"scan", "learn"}
    /\ action \in {"move", "delete"}
    /\ boxes \in BoxLists
    /\ verbose \in {0, 1}
    /\ mode = "learn" => action = "move" /\ boxes = <<"INBOX">>
    /\ pc = IF mode = "scan" THEN "scan_select" ELSE "learn_select"
    /\ bi = 1
    /\ imapState = "AUTH"
    /\ selected = NoBox
    /\ inflight = {}
    /\ log = <<>>
    /\ uid_lists = <<>>
    /\ results = <<>>
    /\ tasks = <<>>
    /\ spam_uids = <<>>
    /\ reports = <<>>
    /\ learned = -1
    /\ exitCode = -1

\* an unread-only run on mailboxes without a message that carries \Deleted
Init ==
    /\ Start
    /\ only_unread = TRUE
    /\ server = Clean

\* a run on mailboxes in which messages may carry \Deleted beforehand (in
\* the mailboxes the run selects: the others are never touched), scanning
\* the unread messages or all of them; a scan prints its reports
InitFlagged ==
    /\ Start
    /\ mode = "scan" => verbose = 1
    /\ only_unread \in BOOLEAN
    /\ mode = "learn" => only_unread = TRUE
    /\ server \in FlaggedServers
    /\ \A b \in AllBoxes :
         server.deleted[b] # {} =>
           IF mode = "scan" THEN \E i \in 1..Len(boxes) : boxes[i] = b
           ELSE b = spam_dir

(***************************************************************************)
(* The worker pool: ThreadPoolExecutor(max_workers=workers) (102, 193).    *)
(* map() submits one future per pair of zip(uid_list, bodies) at once; the *)
(* work queue is FIFO and at most `workers` threads take from it.          *)
(***************************************************************************)
\* A future: the mailbox entry and the arguments of its call, its state,
\* the run of spamc it saw, its outcome, and (for the record) how many
\* futures of the same map() call had completed before it.
Task(i, uid, raw) ==
    [box |-> i, uid |-> uid, raw |-> raw, st |-> "queued", run |-> NoRun,
     res |-> Pending, rank |-> 0]

RECURSIVE Zip(_, _, _)
Zip(i, uid_list, bodies) ==
    IF uid_list = <<>> \/ bodies = <<>> THEN <<>>
    ELSE <<Task(i, Head(uid_list), Head(bodies))>>
           \o Zip(i, Tail(uid_list), Tail(bodies))

Running == { i \in 1..Len(tasks) : tasks[i].st = "running" }

AllDone == \A i \in 1..Len(tasks) : tasks[i].st = "done"

\* the futures of the same map() call as future i that have completed
DoneBefore(i) ==
    { j \in 1..Len(tasks) : tasks[j].box = tasks[i].box /\ tasks[j].st = "done" }

\* the futures map() has just submitted, as indices of `tasks`
NewIds(n) == [k \in 1..n |-> Len(tasks) + k]

\* Faulty variant of WorkerStart: a thread is started for every queued
\* task, whatever the number of threads already running.
WorkerStartUnbounded(i) ==
    /\ tasks[i].st = "queued"
    /\ \A j \in 1..(i - 1) : tasks[j].st # "queued"
    /\ tasks' = [tasks EXCEPT ![i].st = "running"]
    /\ UNCHANGED <<conf, server, pc, bi, imapState, selected, inflight, log,
                   uid_lists, results, spam_uids, reports, learned, exitCode>>

WorkerStart(i) ==
    /\ tasks[i].st = "queued"
    /\ \A j \in 1..(i - 1) : tasks[j].st # "queued"
    /\ Cardinality(Running) < Workers
    /\ tasks' = [tasks EXCEPT ![i].st = "running"]
    /\ UNCHANGED <<conf, server, pc, bi, imapState, selected, inflight, log,
                   uid_lists, results, spam_uids, reports, learned, exitCode>>

\* Faulty variant of WorkerFinish: the task fetches its own message over
\* the shared session before it classifies it.
WorkerFinishOnSession(i) ==
    /\ tasks[i].st = "running"
    /\ \E run \in IF mode = "scan" THEN ClassifierRuns ELSE LearnRuns :
         tasks' = [tasks EXCEPT ![i].st = "done", ![i].run = run,
                     ![i].rank = Cardinality(DoneBefore(i)) + 1,
                     ![i].res = IF mode = "scan"
                                THEN do_spamcheck(tasks[i].uid, tasks[i].raw, run)
                                ELSE do_spamlearn(tasks[i].uid, tasks[i].raw, run)]
    /\ inflight' = inflight \cup
         {[op |-> "fetch", by |-> "worker", ph |-> mode, bi |-> tasks[i].box,
           box |-> NoBox, uids |-> <<tasks[i].uid>>]}
    /\ UNCHANGED <<conf, server, pc, bi, imapState, selected, log, uid_lists,
                   results, spam_uids, reports, learned, exitCode>>

\* the task function returns or raises; the future keeps the outcome
WorkerFinish(i) ==
    /\ tasks[i].st = "running"
    /\ \E run \in IF mode = "scan" THEN ClassifierRuns ELSE LearnRuns :
         tasks' = [tasks EXCEPT ![i].st = "done", ![i].run = run,
                     ![i].rank = Cardinality(DoneBefore(i)) + 1,
                     ![i].res = IF mode = "scan"
                                THEN do_spamcheck(tasks[i].uid, tasks[i].raw, run)
                                ELSE do_spamlearn(tasks[i].uid, tasks[i].raw, run)]
    /\ UNCHANGED <<conf, server, pc, bi, imapState, selected, inflight, log,
                   uid_lists, results, spam_uids, reports, learned, exitCode>>

(***************************************************************************)
(* spam_check, first loop (104-110): get_mailbox_uids (137-157) then       *)
(* check_mailbox (159-168) for every mailbox, inside the `with` block.     *)
(***************************************************************************)
\* the searches of a run return at most MaxMsgs UIDs in total
RECURSIVE Total(_)
Total(lists) == IF lists = <<>> THEN 0 ELSE Len(Head(lists)) + Total(Tail(lists))

Searched == Total(uid_lists)

\* the server's answer to UID FETCH uids (RFC822.PEEK): one tuple per
\* message, whose second member is the raw message
Bodies(box, uids) == [k \in 1..Len(uids) |-> <<box, uids[k]>>]

\* end of one iteration of the first loop: next mailbox, or leave the loop
\* and reach the end of the `with` block
NextScan(res, uids) ==
    /\ results' = Append(results, res)
    /\ uid_lists' = Append(uid_lists, uids)
    /\ bi' = bi + 1
    /\ pc' = IF bi = Len(boxes) THEN "scan_join" ELSE "scan_select"

\* 138: mail.select(mailbox=box)
ScanSelect ==
    /\ pc = "scan_select"
    /\ Send(Cmd("select", "scan", bi, boxes[bi], <<>>))
    /\ UNCHANGED <<conf, server, pc, bi, imapState, selected, uid_lists, results,
                   tasks, spam_uids, reports, learned, exitCode>>

\* 139-142: a failed select gives [] and the loop goes on (107-109)
ScanSelectResp ==
    /\ pc = "scan_select"
    /\ Awaiting("select")
    /\ \E typ \in {"OK", "NO"} :
         /\ Answer(typ)
         /\ IF typ = "OK"
            THEN /\ imapState' = "SELECTED"
                 /\ selected' = boxes[bi]
                 /\ pc' = "scan_search"
                 /\ UNCHANGED <<bi, uid_lists, results>>
            ELSE /\ imapState' = "AUTH"
                 /\ selected' = NoBox
                 /\ NextScan(EmptyList, <<>>)
    /\ UNCHANGED <<conf, server, tasks, spam_uids, reports, learned, exitCode>>

\* 144-146: mail.uid('search', None, 'UNSEEN' or 'ALL')
ScanSearch ==
    /\ pc = "scan_search"
    /\ Send(Cmd("search", "scan", bi, boxes[bi], <<>>))
    /\ UNCHANGED <<conf, server, pc, bi, imapState, selected, uid_lists, results,
                   tasks, spam_uids, reports, learned, exitCode>>

\* Faulty variant of ScanSearchResp: the test of 107 is missing and the
\* fetch is sent whatever the search found.
ScanSearchRespNoShortCircuit ==
    /\ pc = "scan_search"
    /\ Awaiting("search")
    /\ \/ /\ Answer("NO")
          /\ NextScan(EmptyList, <<>>)
       \/ /\ Answer("OK")
          /\ \E data \in SearchResults(boxes[bi], Criterion("scan")) :
               /\ Searched + Len(data) <= MaxMsgs
               /\ uid_lists' = Append(uid_lists, data)
               /\ pc' = "scan_fetch"
               /\ UNCHANGED <<bi, results>>
    /\ UNCHANGED <<conf, server, imapState, selected, tasks, spam_uids, reports,
                   learned, exitCode>>

\* 147-157 and 107-109: a failed search, or one that finds nothing, gives
\* [] and no fetch
ScanSearchResp ==
    /\ pc = "scan_search"
    /\ Awaiting("search")
    /\ \/ /\ Answer("NO")
          /\ NextScan(EmptyList, <<>>)
          /\ UNCHANGED tasks
       \/ /\ Answer("OK")
          /\ \E data \in SearchResults(boxes[bi], Criterion("scan")) :
               /\ Searched + Len(data) <= MaxMsgs
               /\ IF data = <<>>
                  THEN NextScan(EmptyList, <<>>)
                  ELSE /\ uid_lists' = Append(uid_lists, data)
                       /\ pc' = "scan_fetch"
                       /\ UNCHANGED <<bi, results>>
          /\ UNCHANGED tasks
    /\ UNCHANGED <<conf, server, imapState, selected, spam_uids, reports, learned,
                   exitCode>>

\* 161: mail.uid('fetch', b','.join(uid_list), '(RFC822.PEEK)')
ScanFetch ==
    /\ pc = "scan_fetch"
    /\ Send(Cmd("fetch", "scan", bi, boxes[bi], uid_lists[bi]))
    /\ UNCHANGED <<conf, server, pc, bi, imapState, selected, uid_lists, results,
                   tasks, spam_uids, reports, learned, exitCode>>

\* 166-168 and 110: the response type is not looked at; map() submits one
\* task per pair of zip(uid_list, tuples of data) and its generator is
\* appended to results.  A NO response carries no tuple.
ScanFetchResp ==
    /\ pc = "scan_fetch"
    /\ Awaiting("fetch")
    /\ \E typ \in {"OK", "NO"} :
         /\ Answer(typ)
         /\ LET data == IF typ = "OK" THEN Bodies(boxes[bi], uid_lists[bi])
                        ELSE <<>>
                new == Zip(bi, uid_lists[bi], data)
            IN /\ tasks' = tasks \o new
               /\ results' = Append(results, Generator(NewIds(Len(new))))
         /\ server' = IF typ = "OK"
                       THEN Fetch(server, boxes[bi], uid_lists[bi], FetchItem("scan"))
                       ELSE server
    /\ bi' = bi + 1
    /\ pc' = IF bi = Len(boxes) THEN "scan_join" ELSE "scan_select"
    /\ UNCHANGED <<conf, imapState, selected, uid_lists, spam_uids, reports,
                   learned, exitCode>>

\* What a server may answer to UID FETCH uids: the tuples of some of the
\* messages asked for (a message removed by another client since the
\* search has none), in the order the server likes.
FetchResponses(box, uids) ==
    { [k \in 1..Len(p) |-> <<box, p[k]>>] :
        p \in { q \in UNION { [1..n -> Range(uids)] : n \in 0..Len(uids) } :
                   \A i \in 1..Len(q) : \A j \in 1..Len(q) :
                       i # j => q[i] # q[j] } }

\* 161-168 and 110 against such a server: zip(uid_list, tuples of data)
\* pairs the k-th UID of the search with the k-th tuple of the response
ScanFetchRespAnyOrder ==
    /\ pc = "scan_fetch"
    /\ Awaiting("fetch")
    /\ \E typ \in {"OK", "NO"} :
         /\ Answer(typ)
         /\ \E data \in IF typ = "OK"
                         THEN FetchResponses(boxes[bi], uid_lists[bi])
                         ELSE {<<>>} :
              LET new == Zip(bi, uid_lists[bi], data)
              IN /\ tasks' = tasks \o new
                 /\ results' = Append(results, Generator(NewIds(Len(new))))
         /\ server' = IF typ = "OK"
                       THEN Fetch(server, boxes[bi], uid_lists[bi], FetchItem("scan"))
                       ELSE server
    /\ bi' = bi + 1
    /\ pc' = IF bi = Len(boxes) THEN "scan_join" ELSE "scan_select"
    /\ UNCHANGED <<conf, imapState, selected, uid_lists, spam_uids, reports,
                   learned, exitCode>>

\* Faulty variant of ScanJoin: the pool is left without waiting for its
\* tasks, as with shutdown(wait=False).
ScanJoinNoWait ==
    /\ pc = "scan_join"
    /\ pc' = "mut_top"
    /\ bi' = 1
    /\ UNCHANGED <<conf, server, imapState, selected, inflight, log, uid_lists,
                   results, tasks, spam_uids, reports, learned, exitCode>>

\* Faulty variant of ScanJoin: the second loop starts as soon as the tasks
\* of the first mailbox have finished.
ScanJoinFirstMailboxOnly ==
    /\ pc = "scan_join"
    /\ \A j \in 1..Len(tasks) : tasks[j].box = 1 => tasks[j].st = "done"
    /\ pc' = "mut_top"
    /\ bi' = 1
    /\ UNCHANGED <<conf, server, imapState, selected, inflight, log, uid_lists,
                   results, tasks, spam_uids, reports, learned, exitCode>>

\* end of the `with` block (102): shutdown(wait=True) returns when every
\* submitted task has finished; the second loop starts (112)
ScanJoin ==
    /\ pc = "scan_join"
    /\ AllDone
    /\ pc' = "mut_top"
    /\ bi' = 1
    /\ UNCHANGED <<conf, server, imapState, selected, inflight, log, uid_lists,
                   results, tasks, spam_uids, reports, learned, exitCode>>

(***************************************************************************)
(* spam_check, second loop (112-135), after the `with` block.              *)
(***************************************************************************)
\* verbose_print(message, verbose) with the default min_verbosity of 1
Report(i, n) ==
    reports' = IF verbose >= 1 THEN Append(reports, [bi |-> i, n |-> n])
               ELSE reports

\* end of one iteration of the second loop; after the last one spam_check
\* returns and main calls imap_logout (435)
NextMut ==
    /\ bi' = bi + 1
    /\ pc' = IF bi = Len(boxes) THEN "logout_close" ELSE "mut_top"

\* Faulty variant of Collected: the outcomes in the order in which the
\* futures completed, as with as_completed().
CollectedAsCompleted(i) ==
    [k \in 1..Len(results[i].ids) |->
        LET j == CHOOSE j \in 1..Len(results[i].ids) :
                     tasks[results[i].ids[j]].rank = k
        IN tasks[results[i].ids[j]].res]

\* what iterating the generator yields: the outcome of every future, in
\* the order map() submitted them
Collected(i) ==
    [k \in 1..Len(results[i].ids) |-> tasks[results[i].ids[k]].res]

\* 124: [x[0] for x in res if x[1] == True]
RECURSIVE SpamOf(_)
SpamOf(res) ==
    IF res = <<>> THEN <<>>
    ELSE (IF Head(res).val[2] = TRUE THEN <<Head(res).val[1]>> ELSE <<>>)
           \o SpamOf(Tail(res))

\* Faulty variant of FirstMutation: the copy is sent whatever the action.
FirstMutationAlwaysCopy == "mut_copy"

\* 128-134: the first command of a mutation: the copy when the action is
\* "move", the store otherwise
FirstMutation == IF action = "move" THEN "mut_copy" ELSE "mut_store"

\* 124-131: the generator is iterated, each future's result() blocking
\* until the future is done and raising again the exception of a task
\* that raised: nothing catches it and the process ends with status 1
Collect ==
    /\ \A k \in 1..Len(results[bi].ids) : tasks[results[bi].ids[k]].st = "done"
    /\ LET res == Collected(bi) IN
       IF \E k \in 1..Len(res) : res[k].kind = "raise"
       THEN /\ pc' = "crashed"
            /\ exitCode' = 1
            /\ UNCHANGED <<bi, spam_uids, reports>>
       ELSE /\ spam_uids' = SpamOf(res)
            /\ Report(bi, Len(SpamOf(res)))
            /\ UNCHANGED exitCode
            /\ IF SpamOf(res) = <<>>
               THEN NextMut
               ELSE /\ pc' = FirstMutation
                    /\ UNCHANGED bi

\* 113-116: an empty list in results
MutSkip ==
    /\ pc = "mut_top"
    /\ ~Truthy(results[bi])
    /\ Report(bi, 0)
    /\ NextMut
    /\ UNCHANGED <<conf, server, imapState, selected, inflight, log, uid_lists,
                   results, tasks, spam_uids, learned, exitCode>>

\* Faulty variant of MutSelect: the mailbox is not selected again and the
\* mutation goes to whatever mailbox the first loop selected last.
MutSelectSkipped ==
    /\ pc = "mut_top"
    /\ Truthy(results[bi])
    /\ Idle
    /\ Collect
    /\ UNCHANGED <<conf, server, imapState, selected, inflight, log, uid_lists,
                   results, tasks, learned>>

\* 118: mail.select(mailbox=box)
MutSelect ==
    /\ pc = "mut_top"
    /\ Truthy(results[bi])
    /\ Send(Cmd("select", "mutate", bi, boxes[bi], <<>>))
    /\ pc' = "mut_select"
    /\ UNCHANGED <<conf, server, bi, imapState, selected, uid_lists, results, tasks,
                   spam_uids, reports, learned, exitCode>>

\* 119-122: a failed select skips the mailbox
MutSelectResp ==
    /\ pc = "mut_select"
    /\ Awaiting("select")
    /\ \E typ \in {"OK", "NO"} :
         /\ Answer(typ)
         /\ IF typ # "OK"
            THEN /\ imapState' = "AUTH"
                 /\ selected' = NoBox
                 /\ NextMut
                 /\ UNCHANGED <<spam_uids, reports, exitCode>>
            ELSE /\ imapState' = "SELECTED"
                 /\ selected' = boxes[bi]
                 /\ Collect
    /\ UNCHANGED <<conf, server, uid_lists, results, tasks, learned>>

\* 132: mail.uid('copy', uid_str, spam_dir)
MutCopy ==
    /\ pc = "mut_copy"
    /\ Send(Cmd("copy", "mutate", bi, spam_dir, spam_uids))
    /\ UNCHANGED <<conf, server, pc, bi, imapState, selected, uid_lists, results,
                   tasks, spam_uids, reports, learned, exitCode>>

\* Faulty variant of MutCopyResp: a copy that failed ends the mutation of
\* the mailbox.
MutCopyRespStopOnFailure ==
    /\ pc = "mut_copy"
    /\ Awaiting("copy")
    /\ \E typ \in {"OK", "NO"} :
         /\ Answer(typ)
         /\ server' = IF typ = "OK" THEN Copy(server, boxes[bi], spam_uids)
                       ELSE server
         /\ IF typ = "OK" THEN pc' = "mut_store" /\ UNCHANGED bi ELSE NextMut
    /\ UNCHANGED <<conf, imapState, selected, uid_lists, results, tasks,
                   spam_uids, reports, learned, exitCode>>

\* the result of the copy is not looked at
MutCopyResp ==
    /\ pc = "mut_copy"
    /\ Awaiting("copy")
    /\ \E typ \in {"OK", "NO"} :
         /\ Answer(typ)
         /\ server' = IF typ = "OK" THEN Copy(server, boxes[bi], spam_uids)
                       ELSE server
    /\ pc' = "mut_store"
    /\ UNCHANGED <<conf, bi, imapState, selected, uid_lists, results, tasks,
                   spam_uids, reports, learned, exitCode>>

\* 134: mail.uid('store', uid_str, '+FLAGS', '(\Deleted)')
MutStore ==
    /\ pc = "mut_store"
    /\ Send(Cmd("store", "mutate", bi, boxes[bi], spam_uids))
    /\ UNCHANGED <<conf, server, pc, bi, imapState, selected, uid_lists, results,
                   tasks, spam_uids, reports, learned, exitCode>>

MutStoreResp ==
    /\ pc = "mut_store"
    /\ Awaiting("store")
    /\ \E typ \in {"OK", "NO"} :
         /\ Answer(typ)
         /\ server' = IF typ = "OK" THEN Store(server, selected, spam_uids)
                       ELSE server
    /\ pc' = "mut_expunge"
    /\ UNCHANGED <<conf, bi, imapState, selected, uid_lists, results, tasks,
                   spam_uids, reports, learned, exitCode>>

\* 135: mail.expunge()
MutExpunge ==
    /\ pc = "mut_expunge"
    /\ Send(Cmd("expunge", "mutate", bi, boxes[bi], <<>>))
    /\ UNCHANGED <<conf, server, pc, bi, imapState, selected, uid_lists, results,
                   tasks, spam_uids, reports, learned, exitCode>>

MutExpungeResp ==
    /\ pc = "mut_expunge"
    /\ Awaiting("expunge")
    /\ \E typ \in {"OK", "NO"} :
         /\ Answer(typ)
         /\ server' = IF typ = "OK" THEN Expunge(server, selected) ELSE server
    /\ NextMut
    /\ UNCHANGED <<conf, imapState, selected, uid_lists, results, tasks,
                   spam_uids, reports, learned, exitCode>>

(***************************************************************************)
(* imap_logout (85-87), called by main (435), which then returns 0 (436).  *)
(* imaplib allows CLOSE only in state SELECTED: in any other state         *)
(* mail.close() raises IMAP4.error before anything is sent, nothing        *)
(* catches it, and the process ends with status 1 without a LOGOUT.        *)
(***************************************************************************)
\* 86: mail.close()
LogoutClose ==
    /\ pc = "logout_close"
    /\ Send(Cmd("close", "logout", 0, selected, <<>>))
    /\ UNCHANGED <<conf, server, pc, bi, imapState, selected, uid_lists, results,
                   tasks, spam_uids, reports, learned, exitCode>>

\* the command the coordinating thread is about to send at pc
CommandAt(p) ==
    CASE p \in {"scan_select", "mut_top", "learn_select"} -> "select"
      [] p \in {"scan_search", "learn_search"} -> "search"
      [] p \in {"scan_fetch", "learn_fetch"} -> "fetch"
      [] p = "mut_copy" -> "copy"
      [] p = "mut_store" -> "store"
      [] p = "mut_expunge" -> "expunge"
      [] p = "logout_close" -> "close"
      [] p = "logout_logout" -> "logout"

\* imaplib refuses the command in the current state: IMAP4.error is raised
\* before anything is sent, nothing catches it, and the process ends with
\* status 1 (close() at 86 when no mailbox is selected)
IllegalCommand ==
    /\ pc \in {"scan_select", "scan_search", "scan_fetch", "mut_top",
               "mut_copy", "mut_store", "mut_expunge", "logout_close",
               "logout_logout", "learn_select", "learn_search", "learn_fetch"}
    /\ pc = "mut_top" => Truthy(results[bi])
    /\ Idle
    /\ imapState \notin Commands(CommandAt(pc))
    /\ pc' = "crashed"
    /\ exitCode' = 1
    /\ UNCHANGED <<conf, server, bi, imapState, selected, inflight, log, uid_lists,
                   results, tasks, spam_uids, reports, learned>>

LogoutCloseResp ==
    /\ pc = "logout_close"
    /\ Awaiting("close")
    /\ Answer("OK")
    /\ server' = Expunge(server, selected)
    /\ imapState' = "AUTH"
    /\ selected' = NoBox
    /\ pc' = "logout_logout"
    /\ UNCHANGED <<conf, bi, uid_lists, results, tasks, spam_uids, reports,
                   learned, exitCode>>

\* 87: mail.logout()
Logout ==
    /\ pc = "logout_logout"
    /\ Send(Cmd("logout", "logout", 0, NoBox, <<>>))
    /\ imapState' = "LOGOUT"
    /\ UNCHANGED <<conf, server, pc, bi, selected, uid_lists, results, tasks,
                   spam_uids, reports, learned, exitCode>>

\* 436 and 440: return 0, sys.exit(0)
LogoutResp ==
    /\ pc = "logout_logout"
    /\ Awaiting("logout")
    /\ Answer("OK")
    /\ pc' = "done"
    /\ exitCode' = 0
    /\ UNCHANGED <<conf, server, bi, imapState, selected, uid_lists, results, tasks,
                   spam_uids, reports, learned>>

(***************************************************************************)
(* spam_learn (191-217).  Every `return` leaves the `with` block, whose    *)
(* exit waits for the submitted tasks; main then calls imap_logout.        *)
(***************************************************************************)
\* 194: mail.select(mailbox=spam_dir)
LearnSelect ==
    /\ pc = "learn_select"
    /\ Send(Cmd("select", "learn", 1, spam_dir, <<>>))
    /\ UNCHANGED <<conf, server, pc, bi, imapState, selected, uid_lists, results,
                   tasks, spam_uids, reports, learned, exitCode>>

\* 195-197
LearnSelectResp ==
    /\ pc = "learn_select"
    /\ Awaiting("select")
    /\ \E typ \in {"OK", "NO"} :
         /\ Answer(typ)
         /\ IF typ = "OK"
            THEN /\ imapState' = "SELECTED"
                 /\ selected' = spam_dir
                 /\ pc' = "learn_search"
            ELSE /\ imapState' = "AUTH"
                 /\ selected' = NoBox
                 /\ pc' = "logout_close"
    /\ UNCHANGED <<conf, server, bi, uid_lists, results, tasks, spam_uids, reports,
                   learned, exitCode>>

\* 199: mail.uid('search', None, 'ALL')
LearnSearch ==
    /\ pc = "learn_search"
    /\ Send(Cmd("search", "learn", 1, spam_dir, <<>>))
    /\ UNCHANGED <<conf, server, pc, bi, imapState, selected, uid_lists, results,
                   tasks, spam_uids, reports, learned, exitCode>>

\* 200-204
LearnSearchResp ==
    /\ pc = "learn_search"
    /\ Awaiting("search")
    /\ \/ /\ Answer("NO")
          /\ pc' = "logout_close"
          /\ UNCHANGED uid_lists
       \/ /\ Answer("OK")
          /\ \E data \in SearchResults(spam_dir, Criterion("learn")) :
               /\ Len(data) <= MaxMsgs
               /\ uid_lists' = <<data>>
          /\ pc' = "learn_fetch"
    /\ UNCHANGED <<conf, server, bi, imapState, selected, results, tasks, spam_uids,
                   reports, learned, exitCode>>

\* 205: mail.uid('fetch', b','.join(uid_list), '(RFC822)'), sent whatever
\* the length of uid_list
LearnFetch ==
    /\ pc = "learn_fetch"
    /\ Send(Cmd("fetch", "learn", 1, spam_dir, uid_lists[1]))
    /\ UNCHANGED <<conf, server, pc, bi, imapState, selected, uid_lists, results,
                   tasks, spam_uids, reports, learned, exitCode>>

\* 206-213.  A FETCH of an empty set is not a command of the protocol: the
\* server refuses it with BAD, which imaplib raises as IMAP4.error, or
\* with NO.
LearnFetchResp ==
    /\ pc = "learn_fetch"
    /\ Awaiting("fetch")
    /\ \E typ \in IF uid_lists[1] = <<>> THEN {"BAD", "NO"} ELSE {"OK", "NO"} :
         /\ Answer(typ)
         /\ CASE typ = "OK" ->
                   /\ tasks' = Zip(1, uid_lists[1], Bodies(spam_dir, uid_lists[1]))
                   /\ pc' = IF verbose > 0 THEN "learn_count" ELSE "learn_join"
                   /\ UNCHANGED exitCode
              [] typ = "NO" ->
                   /\ pc' = "logout_close"
                   /\ UNCHANGED <<tasks, exitCode>>
              [] typ = "BAD" ->
                   /\ pc' = "crashed"
                   /\ exitCode' = 1
                   /\ UNCHANGED tasks
         /\ server' = IF typ = "OK"
                       THEN Fetch(server, spam_dir, uid_lists[1], FetchItem("learn"))
                       ELSE server
    /\ UNCHANGED <<conf, bi, imapState, selected, uid_lists, results,
                   spam_uids, reports, learned>>

\* 215-217: len([x for x in l if x == True]) iterates the generator, which
\* raises again the exception of a task that raised; the `with` block
\* still waits for every task before the exception leaves spam_learn
LearnCount ==
    /\ pc = "learn_count"
    /\ AllDone
    /\ IF \E k \in 1..Len(tasks) : tasks[k].res.kind = "raise"
       THEN /\ pc' = "crashed"
            /\ exitCode' = 1
            /\ UNCHANGED learned
       ELSE /\ learned' = Cardinality({ k \in 1..Len(tasks) :
                                          tasks[k].res.val = TRUE })
            /\ pc' = "logout_close"
            /\ UNCHANGED exitCode
    /\ UNCHANGED <<conf, server, bi, imapState, selected, inflight, log, uid_lists,
                   results, tasks, spam_uids, reports>>

\* verbose = 0: the generator is never iterated; end of the `with` block
LearnJoin ==
    /\ pc = "learn_join"
    /\ AllDone
    /\ pc' = "logout_close"
    /\ UNCHANGED <<conf, server, bi, imapState, selected, inflight, log, uid_lists,
                   results, tasks, spam_uids, reports, learned, exitCode>>

(***************************************************************************)
(* The program.                                                            *)
(***************************************************************************)
Worker ==
    \E i \in 1..Len(tasks) : WorkerStart(i) \/ WorkerFinish(i)

Scan ==
    \/ ScanSelect \/ ScanSelectResp
    \/ ScanSearch \/ ScanSearchResp
    \/ ScanFetch \/ ScanFetchResp
    \/ ScanJoin

Mutate ==
    \/ MutSkip
    \/ MutSelect \/ MutSelectResp
    \/ MutCopy \/ MutCopyResp
    \/ MutStore \/ MutStoreResp
    \/ MutExpunge \/ MutExpungeResp

Learn ==
    \/ LearnSelect \/ LearnSelectResp
    \/ LearnSearch \/ LearnSearchResp
    \/ LearnFetch \/ LearnFetchResp
    \/ LearnCount \/ LearnJoin

ImapLogout ==
    \/ LogoutClose \/ LogoutCloseResp
    \/ Logout \/ LogoutResp

Next == Worker \/ Scan \/ Mutate \/ Learn \/ ImapLogout \/ IllegalCommand

Spec == Init /\ [][Next]_vars

\* the same program on mailboxes in which messages may carry \Deleted
SpecFlagged == InitFlagged /\ [][Next]_vars

\* a scan against a server that answers a fetch with the messages it still
\* has, in any order
InitScan == Init /\ mode = "scan"

ScanAnyOrder ==
    \/ ScanSelect \/ ScanSelectResp
    \/ ScanSearch \/ ScanSearchResp
    \/ ScanFetch \/ ScanFetchRespAnyOrder
    \/ ScanJoin

NextAnyOrder ==
    Worker \/ ScanAnyOrder \/ Mutate \/ ImapLogout \/ IllegalCommand

SpecAnyOrder == InitScan /\ [][NextAnyOrder]_vars

(***************************************************************************)
(* Vocabulary of the properties.                                           *)
(***************************************************************************)
Entries == 1..Len(boxes)

Unfinished == { i \in 1..Len(tasks) : tasks[i].st # "done" }

TasksOf(i) == { j \in 1..Len(tasks) : tasks[j].box = i }

\* the UIDs map() was given for mailbox entry i, in submission order
RECURSIVE UidsOf(_, _)
UidsOf(ts, i) ==
    IF ts = <<>> THEN <<>>
    ELSE (IF Head(ts).box = i THEN <<Head(ts).uid>> ELSE <<>>)
           \o UidsOf(Tail(ts), i)

Submitted(i) == UidsOf(tasks, i)

\* the UIDs of entry i whose task returned a spam verdict
SpamVerdicts(i) ==
    { tasks[j].uid : j \in { j \in TasksOf(i) :
          /\ tasks[j].res.kind = "ret"
          /\ tasks[j].res.val[2] = TRUE } }

Raised(i) == \E j \in TasksOf(i) : tasks[j].res.kind = "raise"

\* the run is in the second loop of spam_check or past it
PastFirstLoop ==
    /\ mode = "scan"
    /\ pc \notin {"scan_select", "scan_search", "scan_fetch", "scan_join"}

\* the second loop has dealt with entry i
Passed(i) == PastFirstLoop /\ bi > i

\* the positions of log holding a command of the given kind for entry i
At(op, ph, i) ==
    { k \in 1..Len(log) : log[k].op = op /\ log[k].ph = ph /\ log[k].bi = i }

Mutations == {"copy", "store", "expunge"}

(***************************************************************************)
(* C1.  In a scan, a copy is sent only when the action is "move", with     *)
(* the spam folder and exactly the UIDs whose verdict is spam; a store     *)
(* carries exactly those UIDs and, when the action is "move", directly     *)
(* follows the answered copy of the same UIDs; an expunge directly follows *)
(* the answered store.  Once the second loop has dealt with a mailbox      *)
(* that it selected again and whose verdicts held spam, the copy (for      *)
(* "move"), the store and the expunge of that mailbox have been sent.      *)
(***************************************************************************)
C1_CopyBeforeStoreBeforeExpunge ==
    mode = "scan" =>
      /\ \A k \in 1..Len(log) :
           LET e == log[k] IN
           /\ e.op = "copy" =>
                /\ action = "move"
                /\ e.box = spam_dir
                /\ Range(e.uids) = SpamVerdicts(e.bi)
                /\ Len(e.uids) = Cardinality(SpamVerdicts(e.bi))
                /\ e.uids # <<>>
           /\ e.op = "store" =>
                /\ Range(e.uids) = SpamVerdicts(e.bi)
                /\ Len(e.uids) = Cardinality(SpamVerdicts(e.bi))
                /\ e.uids # <<>>
                /\ action = "move" =>
                     /\ k > 1
                     /\ log[k - 1].op = "copy"
                     /\ log[k - 1].bi = e.bi
                     /\ log[k - 1].uids = e.uids
                     /\ log[k - 1].typ # "-"
                /\ action = "delete" => log[k - 1].op = "select"
           /\ e.op = "expunge" =>
                /\ k > 1
                /\ log[k - 1].op = "store"
                /\ log[k - 1].bi = e.bi
                /\ log[k - 1].typ # "-"
      /\ \A i \in Entries :
           ( /\ Passed(i)
             /\ \E k \in At("select", "mutate", i) : log[k].typ = "OK"
             /\ SpamVerdicts(i) # {} )
           => /\ At("store", "mutate", i) # {}
              /\ At("expunge", "mutate", i) # {}
              /\ action = "move" => At("copy", "mutate", i) # {}
              /\ action = "delete" => At("copy", "mutate", i) = {}

\* a move of a proper part of a mailbox, carried to its end
C1_Witness ==
    /\ mode = "scan"
    /\ action = "move"
    /\ \E k \in 1..Len(log) :
         /\ log[k].op = "expunge"
         /\ log[k].typ = "OK"
         /\ log[k - 2].op = "copy"
         /\ Len(log[k - 2].uids) < Len(uid_lists[log[k].bi])

C4_OneCommandOfTheCoordinator ==
    /\ Cardinality(inflight) <= 1
    /\ \A c \in inflight : c.by = "main"

\* two workers classify while a command is outstanding
C4_Witness ==
    /\ Cardinality(Running) = 2
    /\ inflight # {}

(***************************************************************************)
(* C5 as stated.  A classifier that cannot be launched, or with which the  *)
(* communication fails, gives a not-spam verdict for its UID, and the      *)
(* scan goes on to its end.                                                *)
(***************************************************************************)
C5_FailOpen ==
    mode = "scan" =>
      \A i \in 1..Len(tasks) :
        (tasks[i].st = "done" /\ ~(tasks[i].run.launch /\ tasks[i].run.comm))
        => /\ tasks[i].res.kind = "ret"
           /\ tasks[i].res.val[1] = tasks[i].uid
           /\ tasks[i].res.val[2] = FALSE
           /\ pc # "crashed"

(***************************************************************************)
(* C6 as stated.  A classifier that wrote the score 0/0 gives a not-spam   *)
(* verdict whatever its exit status; with any other output the verdict is  *)
(* not-spam exactly when the exit status is 0.                             *)
(***************************************************************************)
C6_ZeroScoreIsNotSpam ==
    mode = "scan" =>
      \A i \in 1..Len(tasks) :
        (tasks[i].st = "done" /\ tasks[i].run.launch /\ tasks[i].run.comm)
        => /\ tasks[i].res.kind = "ret"
           /\ tasks[i].run.out = "0/0\n" => tasks[i].res.val[2] = FALSE
           /\ tasks[i].run.out # "0/0\n" =>
                (tasks[i].res.val[2] = FALSE <=> tasks[i].run.returncode = 0)

EmptySearch(i) ==
    /\ i <= Len(uid_lists)
    /\ uid_lists[i] = <<>>
    /\ \E k \in At("search", "scan", i) : log[k].typ = "OK"

C8_EmptySearchNoWork ==
    mode = "scan" =>
      \A i \in Entries :
        EmptySearch(i) =>
          /\ At("fetch", "scan", i) = {}
          /\ TasksOf(i) = {}
          /\ \A op \in Mutations : At(op, "mutate", i) = {}
          /\ \A k \in 1..Len(reports) : reports[k].bi = i => reports[k].n = 0
          /\ (Passed(i) /\ verbose >= 1) =>
                \E k \in 1..Len(reports) : reports[k].bi = i

\* the first of two mailboxes had nothing to scan, the second was expunged
C8_Witness ==
    /\ mode = "scan"
    /\ verbose = 1
    /\ pc = "done"
    /\ EmptySearch(1)
    /\ At("expunge", "mutate", 2) # {}

(***************************************************************************)
(* C9 as stated.  A select, search or fetch that fails for a mailbox       *)
(* leaves that mailbox without mutation and without reported spam, and     *)
(* the run of a scan in which no classifier failed ends with status 0.     *)
(***************************************************************************)
FailedInFirstLoop(i) ==
    \E k \in 1..Len(log) :
        log[k].ph = "scan" /\ log[k].bi = i /\ log[k].typ = "NO"

C9_FailureIsolated ==
    ( /\ mode = "scan"
      /\ \E i \in Entries : FailedInFirstLoop(i)
      /\ \A i \in Entries : ~Raised(i) )
    => /\ \A i \in Entries :
            FailedInFirstLoop(i) =>
              /\ \A op \in Mutations : At(op, "mutate", i) = {}
              /\ \A k \in 1..Len(reports) : reports[k].bi = i => reports[k].n = 0
       /\ pc # "crashed"
       /\ exitCode \in {-1, 0}

(***************************************************************************)
(* C10.  While a copy, a store or an expunge is outstanding, the mailbox   *)
(* selected on the session is the one of the entry being mutated, the      *)
(* last select sent was a successful select of that mailbox, and the UIDs  *)
(* of the command are among those the search of that entry returned.       *)
(***************************************************************************)
LastSelect ==
    LET ks == { k \in 1..Len(log) : log[k].op = "select" }
    IN log[CHOOSE k \in ks : \A l \in ks : l <= k]

C10_MutationOnSelectedMailbox ==
    \A c \in inflight :
        c.op \in Mutations =>
          /\ imapState = "SELECTED"
          /\ selected = boxes[c.bi]
          /\ LastSelect.box = boxes[c.bi]
          /\ LastSelect.typ = "OK"
          /\ Range(c.uids) \subseteq Range(uid_lists[c.bi])

\* the first mailbox is being flagged after the second, another mailbox,
\* was selected in the first loop
C10_Witness ==
    /\ Len(boxes) = 2
    /\ boxes[1] # boxes[2]
    /\ \E k \in At("select", "scan", 2) : log[k].typ = "OK"
    /\ \E c \in inflight : c.op = "store" /\ c.bi = 1

(***************************************************************************)
(* C11.  In a scan, once a copy has been answered, with OK or with NO, the *)
(* next command of the session is the store of the same UIDs for the same  *)
(* mailbox, and nothing stands between the answer and that store; once a   *)
(* store has been answered, with OK or with NO, the next command is the    *)
(* expunge.  No copy, store or expunge is sent twice for a mailbox entry.  *)
(***************************************************************************)
Answered(k) == log[k].typ \in {"OK", "NO"}

C11_MutationGoesOnAfterFailure ==
    mode = "scan" =>
      /\ \A k \in 1..Len(log) :
           /\ (log[k].op = "copy" /\ Answered(k)) =>
                IF k = Len(log)
                THEN pc = "mut_store" /\ imapState \in Commands("store")
                ELSE /\ log[k + 1].op = "store"
                     /\ log[k + 1].bi = log[k].bi
                     /\ log[k + 1].uids = log[k].uids
           /\ (log[k].op = "store" /\ Answered(k)) =>
                IF k = Len(log)
                THEN pc = "mut_expunge" /\ imapState \in Commands("expunge")
                ELSE /\ log[k + 1].op = "expunge"
                     /\ log[k + 1].bi = log[k].bi
      /\ \A i \in Entries : \A op \in Mutations :
           Cardinality(At(op, "mutate", i)) <= 1

\* the copy failed, the store that followed failed, the expunge was sent
C11_Witness ==
    /\ mode = "scan"
    /\ action = "move"
    /\ \E k \in 1..Len(log) :
         /\ log[k].op = "expunge"
         /\ k > 2
         /\ log[k - 1].op = "store" /\ log[k - 1].typ = "NO"
         /\ log[k - 2].op = "copy" /\ log[k - 2].typ = "NO"

(***************************************************************************)
(* C12.  In a scan and in a learn run alike, at most `workers` calls of    *)
(* the classifier (do_spamcheck or do_spamlearn) are in progress, whatever *)
(* the number of tasks submitted and of mailboxes they came from.          *)
(***************************************************************************)
C12_AtMostWorkersInProgress ==
    Cardinality(Running) <= Workers

\* every worker is busy while a task waits in the queue, and the tasks
\* that are not finished come from two mailboxes
C12_Witness ==
    /\ Cardinality(Running) = Workers
    /\ \E i \in 1..Len(tasks) : tasks[i].st = "queued"
    /\ \E i \in Unfinished : \E j \in Unfinished : tasks[i].box # tasks[j].box

(***************************************************************************)
(* C13 as stated.  No fetch is sent with an empty UID set, in a scan and   *)
(* in a learn run alike.                                                   *)
(***************************************************************************)
C13_NoFetchOfEmptySet ==
    \A k \in 1..Len(log) : log[k].op = "fetch" => log[k].uids # <<>>

(***************************************************************************)
(* C14 as stated.  Once a learn run that prints its count has finished     *)
(* with its tasks, the learned count is the number of messages for which   *)
(* the classifier exited with status 5, whatever happened to the others    *)
(* (status 6, 69, 74 or any other, a classifier that could not be          *)
(* launched or communicated with).                                         *)
(***************************************************************************)
LearnedNow ==
    { k \in 1..Len(tasks) :
        /\ tasks[k].run.launch
        /\ tasks[k].run.comm
        /\ tasks[k].run.returncode = 5 }

C14_LearnedCountExact ==
    ( /\ mode = "learn"
      /\ verbose > 0
      /\ tasks # <<>>
      /\ AllDone
      /\ pc # "learn_count" )
    => learned = Cardinality(LearnedNow)

(***************************************************************************)
(* C15 as stated.  A learn run sends no copy, store or expunge, and no     *)
(* message of any mailbox is removed and none is appended by it, on every  *)
(* path and at every point of the run.                                     *)
(***************************************************************************)
C15_LearnLeavesMailboxesAlone ==
    mode = "learn" =>
      /\ \A k \in 1..Len(log) : log[k].op \notin Mutations
      /\ \A b \in AllBoxes : server.expunged[b] = {}
      /\ server.copied = {}

(***************************************************************************)
(* C16 as stated.  A run that has ended, normally or not, has sent the     *)
(* logout on its session.                                                  *)
(***************************************************************************)
C16_LogoutOnEveryExit ==
    pc \in {"done", "crashed"} => \E k \in 1..Len(log) : log[k].op = "logout"

(***************************************************************************)
(* C17 as stated.  In a scan in which no verdict is spam, every fetch is   *)
(* a peek, no store is sent, no message gets the \Seen flag, and every     *)
(* message that the search for unseen messages returned is still in its    *)
(* mailbox: the same search returns the same UIDs after the run.           *)
(***************************************************************************)
C17_NoSpamKeepsUnseen ==
    ( /\ mode = "scan"
      /\ \A i \in Entries : SpamVerdicts(i) = {} )
    => /\ \A k \in 1..Len(log) :
            /\ log[k].op = "fetch" => FetchItem(log[k].ph) = "RFC822.PEEK"
            /\ log[k].op # "store"
       /\ \A b \in AllBoxes : server.seen[b] = {}
       /\ only_unread =>
            \A i \in 1..Len(uid_lists) :
                Range(uid_lists[i]) \cap server.expunged[boxes[i]] = {}

(***************************************************************************)
(* C18.  In a scan, when a command of the second loop (the select that     *)
(* precedes the mutation, a copy, a store, an expunge) has been sent for   *)
(* a mailbox entry, every classification task submitted for that entry is  *)
(* finished and no classifier worker is running for any mailbox.           *)
(***************************************************************************)
C18_MutationAfterClassification ==
    \A k \in 1..Len(log) :
        log[k].ph = "mutate" =>
          /\ \A j \in TasksOf(log[k].bi) : tasks[j].st = "done"
          /\ Running = {}

\* the first of two mailboxes is being flagged; tasks were submitted for
\* both, and those of the second finished last
C18_Witness ==
    /\ \E c \in inflight : c.op = "store" /\ c.bi = 1
    /\ TasksOf(1) # {}
    /\ TasksOf(2) # {}
    /\ \E k \in 1..Len(log) : log[k].op = "fetch" /\ log[k].bi = 2

(***************************************************************************)
(* C20 as stated.  In a scan, every message removed from a mailbox is one  *)
(* whose verdict in this run was spam, whatever the flags of the messages  *)
(* before the run and whether the scan looks at unread messages only.      *)
(***************************************************************************)
SpamIn(b) == UNION { SpamVerdicts(i) : i \in { i \in Entries : boxes[i] = b } }

C20_OnlySpamIsRemoved ==
    mode = "scan" => \A b \in AllBoxes : server.expunged[b] \subseteq SpamIn(b)

(***************************************************************************)
(* C19 as stated.  In a scan, every classification task, and so every      *)
(* verdict, pairs a UID with the raw message the server returned for that  *)
(* UID, whatever the server answered to the fetch.                         *)
(***************************************************************************)
C19_VerdictOfOwnMessage ==
    mode = "scan" =>
      \A j \in 1..Len(tasks) :
          tasks[j].raw = <<boxes[tasks[j].box], tasks[j].uid>>

=============================================================================
